---- MODULE Spec2Model ----
(***************************************************************************)
(* A model of src/main.cpp: the Lexer, the recursive-descent Parser, the   *)
(* AST (evaluate, print_infix, print_tree) and the read loop of main().    *)
(*                                                                         *)
(* A std::string is a sequence of one-character strings.  A double is an   *)
(* exact decimal [m, e] standing for m / 10^e, kept normalised (no         *)
(* trailing zero in the fraction); on the values the model reaches (short  *)
(* non-negative decimals, their sums and products) IEEE-754 rounding       *)
(* plays no part in any property checked here.                             *)
(***************************************************************************)
EXTENDS Integers, Sequences, FiniteSets, TLC

\* ------------------------------------------------------------------ bounds
\* Longest line of the exhaustive line set.
MaxLen == 4
\* Most operators in a generated reference expression.
MaxOps == 2
\* Longest first line of the whitespace-edit runs.
MaxWsLen == 4
\* Most getNextToken() calls made by the stand-alone lexer driver.
MaxCalls == 6

\* ------------------------------------------------------------- characters
Digits == {"0", "1", "2", "3", "4", "5", "6", "7", "8", "9"}

\* std::isdigit
IsDigit(c) == c \in Digits

\* std::isspace in the "C" locale (space, \t, \n, \f, \r; \v has no TLA+ escape)
IsSpace(c) == c \in {" ", "\t", "\n", "\f", "\r"}

DigitValue(c) ==
  CASE c = "0" -> 0 [] c = "1" -> 1 [] c = "2" -> 2 [] c = "3" -> 3
    [] c = "4" -> 4 [] c = "5" -> 5 [] c = "6" -> 6 [] c = "7" -> 7
    [] c = "8" -> 8 [] c = "9" -> 9

DigitChar(d) ==
  CASE d = 0 -> "0" [] d = 1 -> "1" [] d = 2 -> "2" [] d = 3 -> "3"
    [] d = 4 -> "4" [] d = 5 -> "5" [] d = 6 -> "6" [] d = 7 -> "7"
    [] d = 8 -> "8" [] d = 9 -> "9"

\* ---------------------------------------------------------------- doubles
RECURSIVE Pow10(_)
Pow10(n) == IF n = 0 THEN 1 ELSE 10 * Pow10(n - 1)

RECURSIVE Normalise(_)
Normalise(d) ==
  IF d.e > 0 /\ d.m % 10 = 0 THEN Normalise([m |-> d.m \div 10, e |-> d.e - 1])
  ELSE d

Double(m, e) == Normalise([m |-> m, e |-> e])

Zero == Double(0, 0)

\* operator+ on double
DoubleAdd(a, b) ==
  LET e == IF a.e > b.e THEN a.e ELSE b.e
  IN  Double(a.m * Pow10(e - a.e) + b.m * Pow10(e - b.e), e)

\* operator* on double
DoubleMul(a, b) == Double(a.m * b.m, a.e + b.e)

\* ------------------------------------------------------------------ tokens
NUMBER == "NUMBER"
PLUS == "PLUS"
MUL == "MUL"
LPAREN == "LPAREN"
RPAREN == "RPAREN"
END == "END"

TokenType == {NUMBER, PLUS, MUL, LPAREN, RPAREN, END}

\* Token(type, value = 0)
Token(type, value) == [type |-> type, value |-> value]

\* ------------------------------------------------------------------- lexer
\* std::stod on a string: the longest prefix digits [ '.' digits ] is
\* converted, the rest of the string is ignored; no digit at all throws.
\* (Sign, exponent, hex, inf and nan prefixes cannot occur in a run of
\* digits and '.'.)  used = the number of characters converted.
RECURSIVE DigitRun(_, _)
DigitRun(s, i) ==
  IF i < Len(s) /\ IsDigit(s[i + 1]) THEN DigitRun(s, i + 1) ELSE i

RECURSIVE DigitsValue(_, _, _, _)
DigitsValue(s, from, to, acc) ==
  IF from >= to THEN acc
  ELSE DigitsValue(s, from + 1, to, 10 * acc + DigitValue(s[from + 1]))

stod(s) ==
  LET intEnd == DigitRun(s, 0)
      hasDot == intEnd < Len(s) /\ s[intEnd + 1] = "."
      fracEnd == IF hasDot THEN DigitRun(s, intEnd + 1) ELSE intEnd
      nFrac == IF hasDot THEN fracEnd - (intEnd + 1) ELSE 0
  IN  IF intEnd = 0 /\ nFrac = 0
      THEN [throw |-> "stod", value |-> Zero, used |-> 0]
      ELSE [throw |-> "",
            value |-> Double(DigitsValue(s, 0, intEnd, 0) * Pow10(nFrac)
                             + (IF hasDot
                                THEN DigitsValue(s, intEnd + 1, fracEnd, 0)
                                ELSE 0),
                             nFrac),
            used |-> fracEnd]

\* The loop of Lexer::number(): the end of the run of digits and '.'.
RECURSIVE NumberEnd(_, _)
NumberEnd(input, p) ==
  IF p < Len(input) /\ (IsDigit(input[p + 1]) \/ input[p + 1] = ".")
  THEN NumberEnd(input, p + 1)
  ELSE p

\* The result of a lexer call: the exception thrown ("" when none), the
\* token returned and the cursor afterwards.
LexResult(throw, token, p) == [throw |-> throw, token |-> token, pos |-> p]

\* Lexer::number()
number(input, p) ==
  LET end == NumberEnd(input, p)
      conv == stod(SubSeq(input, p + 1, end))
  IN  IF conv.throw # ""
      THEN LexResult(conv.throw, Token(END, Zero), end)
      ELSE LexResult("", Token(NUMBER, conv.value), end)

\* Mutant of SkipSpace: an if for the while, one character skipped at most.
SkipSpace_once(input, p) ==
  IF p < Len(input) /\ IsSpace(input[p + 1]) THEN p + 1 ELSE p

\* The whitespace loop at the head of Lexer::getNextToken().
RECURSIVE SkipSpace(_, _)
SkipSpace(input, p) ==
  IF p < Len(input) /\ IsSpace(input[p + 1]) THEN SkipSpace(input, p + 1)
  ELSE p

InvalidCharacter == "Invalid character in input"

\* Mutant of getNextToken: a character that starts no token ends the input.
getNextToken_lenient(input, p0) ==
  LET p == SkipSpace(input, p0)
  IN  IF p >= Len(input) THEN LexResult("", Token(END, Zero), p)
      ELSE LET current_char == input[p + 1]
           IN  IF IsDigit(current_char) THEN number(input, p)
               ELSE IF current_char = "+"
                    THEN LexResult("", Token(PLUS, Zero), p + 1)
               ELSE IF current_char = "*"
                    THEN LexResult("", Token(MUL, Zero), p + 1)
               ELSE IF current_char = "("
                    THEN LexResult("", Token(LPAREN, Zero), p + 1)
               ELSE IF current_char = ")"
                    THEN LexResult("", Token(RPAREN, Zero), p + 1)
               ELSE LexResult("", Token(END, Zero), p)

\* Mutant of getNextToken: the cursor moves on when End is returned.
getNextToken_end_advances(input, p0) ==
  LET p == SkipSpace(input, p0)
  IN  IF p >= Len(input) THEN LexResult("", Token(END, Zero), p + 1)
      ELSE LET current_char == input[p + 1]
           IN  IF IsDigit(current_char) THEN number(input, p)
               ELSE IF current_char = "+"
                    THEN LexResult("", Token(PLUS, Zero), p + 1)
               ELSE IF current_char = "*"
                    THEN LexResult("", Token(MUL, Zero), p + 1)
               ELSE IF current_char = "("
                    THEN LexResult("", Token(LPAREN, Zero), p + 1)
               ELSE IF current_char = ")"
                    THEN LexResult("", Token(RPAREN, Zero), p + 1)
               ELSE LexResult(InvalidCharacter, Token(END, Zero), p)

\* Lexer::getNextToken()
getNextToken(input, p0) ==
  LET p == SkipSpace(input, p0)
  IN  IF p >= Len(input) THEN LexResult("", Token(END, Zero), p)
      ELSE LET current_char == input[p + 1]
           IN  IF IsDigit(current_char) THEN number(input, p)
               ELSE IF current_char = "+"
                    THEN LexResult("", Token(PLUS, Zero), p + 1)
               ELSE IF current_char = "*"
                    THEN LexResult("", Token(MUL, Zero), p + 1)
               ELSE IF current_char = "("
                    THEN LexResult("", Token(LPAREN, Zero), p + 1)
               ELSE IF current_char = ")"
                    THEN LexResult("", Token(RPAREN, Zero), p + 1)
               ELSE LexResult(InvalidCharacter, Token(END, Zero), p)

\* --------------------------------------------------------------------- AST
\* NumberNode(value)
NumberNode(value) == <<"Number", value>>

\* BinaryOpNode(op, left, right)
BinaryOpNode(op, left, right) == <<"BinaryOp", op, left, right>>

\* No tree (a null shared_ptr).
NoNode == <<>>

IsNumberNode(node) == node[1] = "Number"

UnknownOperator == "Unknown operator"

\* Mutant of evaluate: the MUL branch is missing.
RECURSIVE evaluate_plus_only(_)
evaluate_plus_only(node) ==
  IF IsNumberNode(node) THEN [throw |-> "", value |-> node[2]]
  ELSE LET op == node[2]
           l == evaluate_plus_only(node[3])
           r == evaluate_plus_only(node[4])
       IN  IF op = PLUS
           THEN IF l.throw # "" THEN l ELSE IF r.throw # "" THEN r
                ELSE [throw |-> "", value |-> DoubleAdd(l.value, r.value)]
           ELSE [throw |-> UnknownOperator, value |-> Zero]

\* NumberNode::evaluate / BinaryOpNode::evaluate: the exception thrown
\* ("" when none) and the value.
RECURSIVE evaluate(_)
evaluate(node) ==
  IF IsNumberNode(node) THEN [throw |-> "", value |-> node[2]]
  ELSE LET op == node[2]
           l == evaluate(node[3])
           r == evaluate(node[4])
       IN  IF op = PLUS
           THEN IF l.throw # "" THEN l ELSE IF r.throw # "" THEN r
                ELSE [throw |-> "", value |-> DoubleAdd(l.value, r.value)]
           ELSE IF op = MUL
           THEN IF l.throw # "" THEN l ELSE IF r.throw # "" THEN r
                ELSE [throw |-> "", value |-> DoubleMul(l.value, r.value)]
           ELSE [throw |-> UnknownOperator, value |-> Zero]

\* The decimal digits of a natural number, most significant first.
RECURSIVE DigitsOf(_)
DigitsOf(n) ==
  IF n < 10 THEN <<DigitChar(n)>>
  ELSE Append(DigitsOf(n \div 10), DigitChar(n % 10))

RECURSIVE StripZeros(_)
StripZeros(n) == IF n > 0 /\ n % 10 = 0 THEN StripZeros(n \div 10) ELSE n

RECURSIVE Repeat(_, _)
Repeat(c, n) == IF n <= 0 THEN <<>> ELSE <<c>> \o Repeat(c, n - 1)

\* Precision of operator<<(double) on a default-constructed stream.
Precision == 6

\* std::ostream << double: "%g" with six significant digits (ties to even),
\* fixed notation for a decimal exponent in -4..5, scientific otherwise,
\* trailing zeros removed.
FormatDouble(v) ==
  IF v.m = 0 THEN <<"0">>
  ELSE
    LET n0 == Len(DigitsOf(v.m))
        drop == IF n0 > Precision THEN n0 - Precision ELSE 0
        q == v.m \div Pow10(drop)
        rem == v.m % Pow10(drop)
        up == drop > 0 /\ (2 * rem > Pow10(drop)
                           \/ (2 * rem = Pow10(drop) /\ q % 2 = 1))
        q1 == IF up THEN q + 1 ELSE q
        carry == Len(DigitsOf(q1)) > Len(DigitsOf(q))
        X == n0 - 1 - v.e + (IF carry THEN 1 ELSE 0)
        D == DigitsOf(StripZeros(q1))
        n == Len(D)
    IN  IF X < -4 \/ X >= Precision
        THEN LET ax == IF X < 0 THEN -X ELSE X
             IN  <<D[1]>>
                 \o (IF n > 1 THEN <<".">> \o SubSeq(D, 2, n) ELSE <<>>)
                 \o <<"e", IF X < 0 THEN "-" ELSE "+">>
                 \o (IF ax < 10 THEN <<"0">> ELSE <<>>) \o DigitsOf(ax)
        ELSE IF X < 0
        THEN <<"0", ".">> \o Repeat("0", -X - 1) \o D
        ELSE IF n <= X + 1
        THEN D \o Repeat("0", X + 1 - n)
        ELSE SubSeq(D, 1, X + 1) \o <<".">> \o SubSeq(D, X + 2, n)

\* NumberNode::print_infix / BinaryOpNode::print_infix: the text written.
RECURSIVE print_infix(_)
print_infix(node) ==
  IF IsNumberNode(node) THEN FormatDouble(node[2])
  ELSE <<"(">> \o print_infix(node[3])
       \o (IF node[2] = PLUS THEN <<" ", "+", " ">>
           ELSE IF node[2] = MUL THEN <<" ", "*", " ">>
           ELSE <<>>)
       \o print_infix(node[4]) \o <<")">>

\* print_indent: two spaces per level.
print_indent(indent) == Repeat(" ", 2 * indent)

\* NumberNode::print_tree / BinaryOpNode::print_tree: the text written.
RECURSIVE print_tree(_, _)
print_tree(node, indent) ==
  IF IsNumberNode(node)
  THEN print_indent(indent) \o <<"Number(">> \o FormatDouble(node[2])
       \o <<")", "\n">>
  ELSE print_indent(indent)
       \o <<"BinaryOp(", IF node[2] = PLUS THEN "+" ELSE "*", ")", "\n">>
       \o print_tree(node[3], indent + 1)
       \o print_tree(node[4], indent + 1)

\* ------------------------------------------------------------------ inputs
\* The characters of the exhaustive line set: two digits, the decimal
\* point, the four punctuation tokens, a whitespace character and '-', a
\* character the lexer rejects.
Alphabet == {"1", "2", ".", "+", "*", "(", ")", " ", "-"}

\* Every line of at most n characters of the alphabet.
LinesUpTo(n) == UNION {[1..k -> Alphabet] : k \in 0..n}

\* Lines longer than MaxLen or with other characters: an unsupported
\* operator, an unbalanced parenthesis, a literal with two points, tabs
\* around a literal, and a letter after a trailing token.
ExampleLines ==
  { <<"3", " ", "-", " ", "2">>,
    <<"(", "1", " ", "+", " ", "2">>,
    <<"1", ".", "2", ".", "3">>,
    <<"\t", "1", "2", ".", "5", "\t">>,
    <<"1", "+", "2", ")", " ", "a">> }

Lines == LinesUpTo(MaxLen) \cup ExampleLines

\* Reference expressions: every tree with at most MaxOps operators over
\* the leaf values.
LeafValues == {1, 2, 3, 4}

RECURSIVE TreesWith(_)
TreesWith(k) ==
  IF k = 0 THEN {NumberNode(Double(v, 0)) : v \in LeafValues}
  ELSE UNION {{BinaryOpNode(op, l, r) :
                 op \in {PLUS, MUL}, l \in TreesWith(i),
                 r \in TreesWith(k - 1 - i)} : i \in 0..(k - 1)}

Trees == UNION {TreesWith(k) : k \in 0..MaxOps}

\* The conventional value of a reference expression, in integer arithmetic.
RECURSIVE RefValue(_)
RefValue(t) ==
  IF IsNumberNode(t) THEN t[2].m
  ELSE IF t[2] = PLUS THEN RefValue(t[3]) + RefValue(t[4])
  ELSE RefValue(t[3]) * RefValue(t[4])

\* A reference expression written the conventional way: parentheses only
\* where precedence and left associativity need them; sp puts a space on
\* both sides of every operator.
RECURSIVE Render(_, _)
Render(t, sp) ==
  IF IsNumberNode(t) THEN DigitsOf(t[2].m)
  ELSE LET paren(x, need) ==
             IF need THEN <<"(">> \o Render(x, sp) \o <<")">>
             ELSE Render(x, sp)
           sym == IF t[2] = PLUS THEN "+" ELSE "*"
           l == t[3]
           r == t[4]
       IN  paren(l, t[2] = MUL /\ ~IsNumberNode(l) /\ l[2] = PLUS)
           \o (IF sp THEN <<" ", sym, " ">> ELSE <<sym>>)
           \o paren(r, ~IsNumberNode(r) /\ (t[2] = MUL \/ r[2] = PLUS))

\* What may follow a complete expression on a line: nothing, or a token
\* that cannot continue it and then, possibly, a character no token starts
\* with.
Tails ==
  { <<>>, <<")">>, <<")", "-">>, <<" ", "7", "-">>, <<"(", "-">> }

\* What is known of the line being processed when it was written from a
\* reference expression: the expression and what follows it on the line.
NoExpect == [known |-> FALSE, tree |-> NoNode, tail |-> <<>>]

Expect(t, tail) == [known |-> TRUE, tree |-> t, tail |-> tail]

\* ------------------------------------------------------------------- state
VARIABLES
  pc,             \* where main() is
  is_running,     \* main's loop flag
  eof,            \* std::cin has failed at end of input
  input,          \* the line read by std::getline
  pos,            \* Lexer::pos
  current_token,  \* Parser::current_token
  stack,          \* the call stack of expr/term/factor
  ret,            \* the node returned by the last call that returned
  ast,            \* the tree returned by parse()
  what,           \* the message of the exception in flight
  out,            \* what the try block wrote to std::cout for this line
  err,            \* what the handler wrote to std::cerr for this line
  tokens,         \* history: the result of every getNextToken() call
  expected,       \* history: the reference expression of the line, if any
  last            \* history: the previous line and its results

vars == <<pc, is_running, eof, input, pos, current_token, stack, ret, ast,
          what, out, err, tokens, expected, last>>

NoToken == Token(END, Zero)

NoLast == [state |-> "start", input |-> <<>>, tokens |-> <<>>,
           out |-> <<>>, err |-> <<>>, joins |-> FALSE]

Frame(fn, at, node, op) == [fn |-> fn, at |-> at, node |-> node, op |-> op]

Top == stack[Len(stack)]

Pop == SubSeq(stack, 1, Len(stack) - 1)

\* One entry of the token history.
Entry(r, from) ==
  [throw |-> r.throw, type |-> r.token.type, value |-> r.token.value,
   from |-> from, to |-> r.pos]

Init ==
  /\ pc = "main"
  /\ is_running = FALSE
  /\ eof = FALSE
  /\ input = <<>>
  /\ pos = 0
  /\ current_token = NoToken
  /\ stack = <<>>
  /\ ret = NoNode
  /\ ast = NoNode
  /\ what = ""
  /\ out = <<>>
  /\ err = <<>>
  /\ tokens = <<>>
  /\ expected = NoExpect
  /\ last = NoLast

\* ------------------------------------------------------------------ parser
UnexpectedToken == "Unexpected token"
ExpectedFactor == "Expected number or parentheses"

\* Mutant of consume: the current token is not compared with the expected one.
consume_unchecked(wanted) ==
  LET r == getNextToken(input, pos)
  IN  [throw |-> r.throw, token |-> r.token, pos |-> r.pos,
       lexed |-> TRUE, entry |-> Entry(r, SkipSpace(input, pos))]

\* Parser::consume(expected), with wanted for its parameter: the exception thrown ("" when none), the new
\* current token and cursor, and whether the lexer was called.
consume(wanted) ==
  IF current_token.type = wanted
  THEN LET r == getNextToken(input, pos)
       IN  [throw |-> r.throw, token |-> r.token, pos |-> r.pos,
            lexed |-> TRUE, entry |-> Entry(r, SkipSpace(input, pos))]
  ELSE [throw |-> UnexpectedToken, token |-> current_token, pos |-> pos,
        lexed |-> FALSE, entry |-> Entry(LexResult("", NoToken, pos), pos)]

\* Mutant of parse: the token after the expression must be End.
parse_strict(node) ==
  IF current_token.type = END THEN [throw |-> "", ast |-> node]
  ELSE [throw |-> UnexpectedToken, ast |-> NoNode]

\* Parser::parse(): hands on what expr() returned.
parse(node) == [throw |-> "", ast |-> node]

\* The effect of a consume() on the lexer and the token history.
Consumed(c) ==
  /\ pos' = c.pos
  /\ tokens' = IF c.lexed THEN Append(tokens, c.entry) ELSE tokens
  /\ current_token' = IF c.throw = "" THEN c.token ELSE current_token

\* An exception leaves the try block: the stack unwinds to the handler.
Raise(msg) ==
  /\ pc' = "catch"
  /\ what' = msg
  /\ stack' = <<>>
  /\ ret' = NoNode
  /\ ast' = NoNode

\* A call pushes a frame; the caller's frame records where it resumes.
Call(resume, fn) ==
  /\ stack' = Append(Pop, resume) \o <<Frame(fn, "entry", NoNode, "")>>
  /\ UNCHANGED <<pc, what, ret, ast>>

\* A return pops the frame; the return of the outermost expr() is the
\* return of parse() into main().
Return(node) ==
  IF Len(stack) = 1
  THEN LET p == parse(node)
       IN  IF p.throw # "" THEN Raise(p.throw)
           ELSE /\ pc' = "print_infix"
                /\ ast' = p.ast
                /\ stack' = <<>>
                /\ ret' = NoNode
                /\ what' = what
  ELSE /\ stack' = Pop
       /\ ret' = node
       /\ UNCHANGED <<pc, what, ast>>

\* Mutant of Fold: the operands are swapped.
Fold_swapped(frame, r) ==
  IF frame.at = "first" THEN r
  ELSE BinaryOpNode(frame.op, r, frame.node)

\* Lines 164/169 and 176/181: the node a loop holds once a call has
\* returned r: the first operand, or the fold of the node so far and r.
Fold(frame, r) ==
  IF frame.at = "first" THEN r
  ELSE BinaryOpNode(frame.op, frame.node, r)

\* Parser::expr(), line 164: the call of term().
expr_entry ==
  /\ pc = "parse"
  /\ Top.fn = "expr" /\ Top.at = "entry"
  /\ Call(Frame("expr", "first", NoNode, ""), "term")
  /\ UNCHANGED <<is_running, eof, input, pos, current_token, out, err,
                 tokens, expected, last>>

\* Parser::expr(), lines 164-172: term() has returned; the node is stored
\* or folded, then the loop either consumes '+' and calls term() again or
\* ends and the node is returned.
expr_while ==
  /\ pc = "parse"
  /\ Top.fn = "expr" /\ Top.at \in {"first", "next"}
  /\ LET node == Fold(Top, ret)
     IN  IF current_token.type = PLUS
         THEN LET op == current_token.type
                  c == consume(PLUS)
              IN  /\ Consumed(c)
                  /\ IF c.throw # "" THEN Raise(c.throw)
                     ELSE Call(Frame("expr", "next", node, op), "term")
         ELSE /\ Return(node)
              /\ UNCHANGED <<pos, current_token, tokens>>
  /\ UNCHANGED <<is_running, eof, input, out, err, expected, last>>

\* Parser::term(), line 176: the call of factor().
term_entry ==
  /\ pc = "parse"
  /\ Top.fn = "term" /\ Top.at = "entry"
  /\ Call(Frame("term", "first", NoNode, ""), "factor")
  /\ UNCHANGED <<is_running, eof, input, pos, current_token, out, err,
                 tokens, expected, last>>

\* Parser::term(), lines 176-184.
term_while ==
  /\ pc = "parse"
  /\ Top.fn = "term" /\ Top.at \in {"first", "next"}
  /\ LET node == Fold(Top, ret)
     IN  IF current_token.type = MUL
         THEN LET op == current_token.type
                  c == consume(MUL)
              IN  /\ Consumed(c)
                  /\ IF c.throw # "" THEN Raise(c.throw)
                     ELSE Call(Frame("term", "next", node, op), "factor")
         ELSE /\ Return(node)
              /\ UNCHANGED <<pos, current_token, tokens>>
  /\ UNCHANGED <<is_running, eof, input, out, err, expected, last>>

\* Mutant of factor: End in the place of a factor is a number, zero.
factor_empty_is_zero ==
  /\ pc = "parse"
  /\ Top.fn = "factor" /\ Top.at = "entry"
  /\ IF current_token.type = NUMBER
     THEN LET value == current_token.value
              c == consume(NUMBER)
          IN  /\ Consumed(c)
              /\ IF c.throw # "" THEN Raise(c.throw)
                 ELSE Return(NumberNode(value))
     ELSE IF current_token.type = LPAREN
     THEN LET c == consume(LPAREN)
          IN  /\ Consumed(c)
              /\ IF c.throw # "" THEN Raise(c.throw)
                 ELSE Call(Frame("factor", "rparen", NoNode, ""), "expr")
     ELSE IF current_token.type = END
     THEN /\ Return(NumberNode(Zero))
          /\ UNCHANGED <<pos, current_token, tokens>>
     ELSE /\ Raise(ExpectedFactor)
          /\ UNCHANGED <<pos, current_token, tokens>>
  /\ UNCHANGED <<is_running, eof, input, out, err, expected, last>>

\* Parser::factor(), lines 188-193 and 199: a number, an opening
\* parenthesis and the call of expr(), or the error.
factor ==
  /\ pc = "parse"
  /\ Top.fn = "factor" /\ Top.at = "entry"
  /\ IF current_token.type = NUMBER
     THEN LET value == current_token.value
              c == consume(NUMBER)
          IN  /\ Consumed(c)
              /\ IF c.throw # "" THEN Raise(c.throw)
                 ELSE Return(NumberNode(value))
     ELSE IF current_token.type = LPAREN
     THEN LET c == consume(LPAREN)
          IN  /\ Consumed(c)
              /\ IF c.throw # "" THEN Raise(c.throw)
                 ELSE Call(Frame("factor", "rparen", NoNode, ""), "expr")
     ELSE /\ Raise(ExpectedFactor)
          /\ UNCHANGED <<pos, current_token, tokens>>
  /\ UNCHANGED <<is_running, eof, input, out, err, expected, last>>

\* Parser::factor(), lines 194-196: expr() has returned.
factor_rparen ==
  /\ pc = "parse"
  /\ Top.fn = "factor" /\ Top.at = "rparen"
  /\ LET node == ret
         c == consume(RPAREN)
     IN  /\ Consumed(c)
         /\ IF c.throw # "" THEN Raise(c.throw) ELSE Return(node)
  /\ UNCHANGED <<is_running, eof, input, out, err, expected, last>>

\* -------------------------------------------------------------------- main
\* Line 204.
main_begin ==
  /\ pc = "main"
  /\ is_running' = TRUE
  /\ pc' = "while"
  /\ UNCHANGED <<eof, input, pos, current_token, stack, ret, ast, what, out,
                 err, tokens, expected, last>>

\* Line 205: the loop test.
main_while ==
  /\ pc = "while"
  /\ pc' = IF is_running THEN "getline" ELSE "return"
  /\ UNCHANGED <<is_running, eof, input, pos, current_token, stack, ret, ast,
                 what, out, err, tokens, expected, last>>

\* Lines 206-208: a fresh input string and std::getline into it.  (The
\* prompt is not recorded: out holds what the try block writes.)
ReadLine(line, exp) ==
  /\ input' = line
  /\ expected' = exp
  /\ pc' = "try"
  /\ UNCHANGED <<is_running, pos, current_token, stack, ret, ast, what, out,
                 err, tokens>>

\* std::getline: a line of the stream, or, at the end of the stream and
\* ever after, a failed read that leaves the string empty.
main_getline ==
  /\ pc = "getline"
  /\ \/ /\ ~eof
        /\ \E line \in Lines : ReadLine(line, NoExpect)
        /\ UNCHANGED eof
     \/ /\ ~eof
        /\ \E t \in Trees :
             \/ \E tail \in Tails :
                  ReadLine(Render(t, FALSE) \o tail, Expect(t, tail))
             \/ ReadLine(Render(t, TRUE), Expect(t, <<>>))
             \/ ReadLine(print_infix(t), Expect(t, <<>>))
        /\ UNCHANGED eof
     \/ /\ eof' = TRUE
        /\ ReadLine(<<>>, NoExpect)
  /\ UNCHANGED last

\* Lines 211-213: Lexer lexer(input), Parser parser(lexer), whose
\* constructor reads the first token, and the call of parse().
main_try ==
  /\ pc = "try"
  /\ LET r == getNextToken(input, 0)
     IN  /\ pos' = r.pos
         /\ tokens' = Append(tokens, Entry(r, SkipSpace(input, 0)))
         /\ IF r.throw # ""
            THEN /\ Raise(r.throw)
                 /\ UNCHANGED current_token
            ELSE /\ current_token' = r.token
                 /\ pc' = "parse"
                 /\ stack' = <<Frame("expr", "entry", NoNode, "")>>
                 /\ UNCHANGED <<ret, ast, what>>
  /\ UNCHANGED <<is_running, eof, input, out, err, expected, last>>

\* Lines 215-217.
main_print_infix ==
  /\ pc = "print_infix"
  /\ out' = Append(out, <<"Infix notation: ">> \o print_infix(ast) \o <<"\n">>)
  /\ pc' = "print_tree"
  /\ UNCHANGED <<is_running, eof, input, pos, current_token, stack, ret, ast,
                 what, err, tokens, expected, last>>

\* Lines 219-220.
main_print_tree ==
  /\ pc = "print_tree"
  /\ out' = Append(out, <<"Tree structure:", "\n">> \o print_tree(ast, 0))
  /\ pc' = "evaluate"
  /\ UNCHANGED <<is_running, eof, input, pos, current_token, stack, ret, ast,
                 what, err, tokens, expected, last>>

\* Lines 222-223.
main_evaluate ==
  /\ pc = "evaluate"
  /\ LET r == evaluate(ast)
     IN  IF r.throw # ""
         THEN /\ pc' = "catch"
              /\ what' = r.throw
              /\ out' = out
         ELSE /\ pc' = "end"
              /\ what' = what
              /\ out' = Append(out, <<"Result: ">> \o FormatDouble(r.value)
                                    \o <<"\n">>)
  /\ UNCHANGED <<is_running, eof, input, pos, current_token, stack, ret, ast,
                 err, tokens, expected, last>>

\* Lines 224-226: the handler.
main_catch ==
  /\ pc = "catch"
  /\ err' = Append(err, <<"Error: ", what, "\n">>)
  /\ pc' = "end"
  /\ UNCHANGED <<is_running, eof, input, pos, current_token, stack, ret, ast,
                 what, out, tokens, expected, last>>

\* The locals of the loop body once they are out of scope.
OutOfScope ==
  /\ input' = <<>>
  /\ pos' = 0
  /\ current_token' = NoToken
  /\ stack' = <<>>
  /\ ret' = NoNode
  /\ ast' = NoNode
  /\ what' = ""
  /\ out' = <<>>
  /\ err' = <<>>
  /\ tokens' = <<>>
  /\ expected' = NoExpect

\* Line 227: the end of the loop body; the line, its lexer, parser and tree
\* are destroyed.
main_end ==
  /\ pc = "end"
  /\ pc' = "while"
  /\ OutOfScope
  /\ UNCHANGED <<is_running, eof, last>>

Parse ==
  \/ expr_entry \/ expr_while \/ term_entry \/ term_while
  \/ factor \/ factor_rparen

Next ==
  \/ main_begin \/ main_while \/ main_getline
  \/ main_try \/ Parse
  \/ main_print_infix \/ main_print_tree \/ main_evaluate \/ main_catch
  \/ main_end

Spec == Init /\ [][Next]_vars

\* ------------------------------------------------- the lexer on its own
\* A caller that keeps asking one Lexer for tokens, as the Parser does
\* through its constructor and consume(), until the lexer throws.
LexerInit ==
  /\ pc = "lexer"
  /\ input \in Lines
  /\ is_running = FALSE
  /\ eof = FALSE
  /\ pos = 0
  /\ current_token = NoToken
  /\ stack = <<>>
  /\ ret = NoNode
  /\ ast = NoNode
  /\ what = ""
  /\ out = <<>>
  /\ err = <<>>
  /\ tokens = <<>>
  /\ expected = NoExpect
  /\ last = NoLast

Lexer_getNextToken ==
  /\ pc = "lexer"
  /\ Len(tokens) < MaxCalls
  /\ LET r == getNextToken(input, pos)
     IN  /\ pos' = r.pos
         /\ tokens' = Append(tokens, Entry(r, SkipSpace(input, pos)))
         /\ IF r.throw # ""
            THEN pc' = "thrown" /\ what' = r.throw /\ UNCHANGED current_token
            ELSE pc' = pc /\ what' = what /\ current_token' = r.token
  /\ UNCHANGED <<is_running, eof, input, stack, ret, ast, out, err, expected,
                 last>>

LexerNext == Lexer_getNextToken

SpecLexer == LexerInit /\ [][LexerNext]_vars

\* ------------------------------------------- lines that differ by whitespace
\* The read loop on a stream in which every line after the first is the
\* line before it with one whitespace character inserted or removed.
WsLines == LinesUpTo(MaxWsLen)

Example_1p2 == <<"1", "+", "2">>
Example_1p2_spaced == <<" ", "1", " ", "+", " ", "2", " ">>

\* The numeric literals of a line, as the lexer scans them: the offsets of
\* their first character and of the character after their last.
RECURSIVE NumberSpans(_, _)
NumberSpans(line, p) ==
  LET r == getNextToken(line, p)
  IN  IF r.throw # "" \/ r.token.type = END THEN {}
      ELSE (IF r.token.type = NUMBER THEN {<<SkipSpace(line, p), r.pos>>}
            ELSE {})
           \cup NumberSpans(line, r.pos)

\* The gap after the first k characters of the line lies inside a literal.
InsideLiteral(line, k) ==
  \E s \in NumberSpans(line, 0) : s[1] < k /\ k < s[2]

Insert(line, k, c) ==
  SubSeq(line, 1, k) \o <<c>> \o SubSeq(line, k + 1, Len(line))

Remove(line, i) == SubSeq(line, 1, i - 1) \o SubSeq(line, i + 1, Len(line))

\* Character i is the only thing between a numeric literal and a digit or '.'.
Joins(line, i) ==
  /\ i < Len(line)
  /\ IsDigit(line[i + 1]) \/ line[i + 1] = "."
  /\ \E s \in NumberSpans(line, 0) : s[2] = i - 1

\* The token history without the positions.
TokenView(ts) ==
  [i \in 1..Len(ts) |->
     [throw |-> ts[i].throw, type |-> ts[i].type, value |-> ts[i].value]]

ReadEdited(line, joins) ==
  /\ ReadLine(line, NoExpect)
  /\ last' = [last EXCEPT !.state = "pair", !.joins = joins]

main_getline_ws ==
  /\ pc = "getline"
  /\ \/ /\ last.state = "start"
        /\ \E line \in WsLines \cup {Example_1p2} : ReadLine(line, NoExpect)
        /\ UNCHANGED last
     \/ /\ last.state # "start"
        /\ Len(last.input) < MaxWsLen
        /\ \E k \in 0..Len(last.input) :
             /\ ~InsideLiteral(last.input, k)
             /\ ReadEdited(Insert(last.input, k, " "), FALSE)
     \/ /\ last.state # "start"
        /\ last.input = Example_1p2
        /\ ReadEdited(Example_1p2_spaced, FALSE)
     \/ /\ last.state # "start"
        /\ \E i \in 1..Len(last.input) :
             /\ IsSpace(last.input[i])
             /\ ReadEdited(Remove(last.input, i), Joins(last.input, i))
  /\ UNCHANGED eof

\* Line 227, with the line and its results remembered.
main_end_ws ==
  /\ pc = "end"
  /\ pc' = "while"
  /\ OutOfScope
  /\ last' = [state |-> "line", input |-> input, tokens |-> TokenView(tokens),
              out |-> out, err |-> err, joins |-> FALSE]
  /\ UNCHANGED <<is_running, eof>>

NextWs ==
  \/ main_begin \/ main_while \/ main_getline_ws
  \/ main_try \/ Parse
  \/ main_print_infix \/ main_print_tree \/ main_evaluate \/ main_catch
  \/ main_end_ws

SpecWs == Init /\ [][NextWs]_vars

\* ================================================================== claims
LastOf(seq) == seq[Len(seq)]

\* The line the handler writes, and the last line of a successful try block.
ErrorLine(msg) == <<"Error: ", msg, "\n">>

ResultLine(digits) == <<"Result: ">> \o digits \o <<"\n">>

\* The try block has got past parse().
Parsed == pc \in {"print_infix", "print_tree", "evaluate"} \/ (pc = "end" /\ err = <<>>)

Line_1p2p3 == <<"1", " ", "+", " ", "2", " ", "+", " ", "3">>
Line_2p3m4 == <<"2", " ", "+", " ", "3", " ", "*", " ", "4">>
Line_p2p3pm4 == <<"(", "2", " ", "+", " ", "3", ")", " ", "*", " ", "4">>

Leaf(v) == NumberNode(Double(v, 0))

\* C1: a line written from an expression over number literals, '+', '*' and
\* parentheses parses to exactly that expression's tree ('*' below '+'
\* unless parenthesised, equal operators nested to the left), and the
\* result printed is the conventional value of the expression; so
\* "1 + 2 + 3" gives 6, "2 + 3 * 4" gives 14 and "(2 + 3) * 4" gives 20.
C1_PrecedenceAndAssociativity ==
  /\ (expected.known /\ expected.tail = <<>>) =>
       /\ pc # "catch" /\ err = <<>>
       /\ Parsed => ast = expected.tree
       /\ pc = "end" =>
            /\ evaluate(ast) =
                 [throw |-> "", value |-> Double(RefValue(expected.tree), 0)]
            /\ Len(out) = 3
            /\ out[3] = ResultLine(DigitsOf(RefValue(expected.tree)))
  /\ (pc = "end" /\ input = Line_1p2p3) =>
       /\ ast = BinaryOpNode(PLUS, BinaryOpNode(PLUS, Leaf(1), Leaf(2)), Leaf(3))
       /\ out[3] = ResultLine(<<"6">>)
  /\ (pc = "end" /\ input = Line_2p3m4) =>
       /\ ast = BinaryOpNode(PLUS, Leaf(2), BinaryOpNode(MUL, Leaf(3), Leaf(4)))
       /\ out[3] = ResultLine(<<"1", "4">>)
  /\ (pc = "end" /\ input = Line_p2p3pm4) =>
       /\ ast = BinaryOpNode(MUL, BinaryOpNode(PLUS, Leaf(2), Leaf(3)), Leaf(4))
       /\ out[3] = ResultLine(<<"2", "0">>)

\* "(2 + 3) * 4" has been processed and printed 20.
C1_Witness ==
  /\ pc = "end" /\ input = Line_p2p3pm4
  /\ expected.known
  /\ Len(out) = 3 /\ out[3] = ResultLine(<<"2", "0">>)

\* C2: a line ends with the three outputs, in order, and no error line, or
\* with one error line and no output; no output is ever written before an
\* error.
C2_AllOrNothing ==
  /\ Len(err) <= 1
  /\ (pc = "catch" \/ err # <<>>) => out = <<>>
  /\ pc = "end" =>
       \/ /\ err = <<>>
          /\ Len(out) = 3
          /\ out[1][1] = "Infix notation: "
          /\ out[2][1] = "Tree structure:"
          /\ out[3][1] = "Result: "
       \/ /\ out = <<>>
          /\ Len(err) = 1
          /\ err[1][1] = "Error: "

\* A line with a '*' has succeeded with its three outputs.
C2_Witness ==
  /\ pc = "end" /\ Len(out) = 3 /\ err = <<>>
  /\ ~IsNumberNode(ast) /\ ast[2] = MUL

\* C3: once end of input has been reached, the loop test ends the loop.
C3_LoopEndsAtEndOfInput ==
  [][(eof /\ pc = "while") => pc' = "return"]_vars

\* The character at the cursor, after whitespace, starts no token.
InvalidAtCursor ==
  LET p == SkipSpace(input, pos)
  IN  /\ p < Len(input)
      /\ ~IsDigit(input[p + 1])
      /\ input[p + 1] \notin {"+", "*", "(", ")"}

LexerCalled == Len(tokens') = Len(tokens) + 1

Line_3m2 == <<"3", " ", "-", " ", "2">>

\* C4: a getNextToken() call that finds, after whitespace, a character that
\* starts no token throws the lex error and returns no token; the lexer is
\* not called again for that line, and the line ends with that error and no
\* output; "3 - 2" ends so.
C4_InvalidCharacterFails ==
  /\ [][(LexerCalled /\ InvalidAtCursor) =>
          /\ pc' = "catch" /\ what' = InvalidCharacter
          /\ LastOf(tokens').throw = InvalidCharacter
          /\ current_token' = current_token]_vars
  /\ [](\A i \in 1..Len(tokens) :
          tokens[i].throw # "" =>
            /\ i = Len(tokens)
            /\ pc \in {"catch", "end"}
            /\ what = tokens[i].throw
            /\ out = <<>>
            /\ pc = "end" => err = <<ErrorLine(tokens[i].throw)>>)
  /\ []((pc = "end" /\ input = Line_3m2) =>
          /\ err = <<ErrorLine(InvalidCharacter)>>
          /\ out = <<>>
          /\ Len(tokens) = 2 /\ tokens[2].from = 2)

\* "3 - 2" has failed at the '-'.
C4_Witness ==
  /\ pc = "end" /\ input = Line_3m2
  /\ err = <<ErrorLine(InvalidCharacter)>>
  /\ LastOf(tokens).throw = InvalidCharacter

\* The characters a lexer call consumed for its token.
Lexeme(t) == SubSeq(input, t.from + 1, t.to)

DotCount(s) == Cardinality({i \in 1..Len(s) : s[i] = "."})

\* C5: a run of digits and '.' with more than one '.' makes the lexer call
\* fail, and the value of every Number token comes from the whole run it
\* consumed.
C5_MalformedLiteralRejected ==
  \A i \in 1..Len(tokens) :
    /\ DotCount(Lexeme(tokens[i])) > 1 => tokens[i].throw # ""
    /\ (tokens[i].throw = "" /\ tokens[i].type = NUMBER) =>
         stod(Lexeme(tokens[i])).used = Len(Lexeme(tokens[i]))

AtFactor(at) == pc = "parse" /\ Top.fn = "factor" /\ Top.at = at

Line_p1p2 == <<"(", "1", " ", "+", " ", "2">>

\* C6: when the expression after a '(' is complete and the current token is
\* not RParen, factor() throws "Unexpected token" out of consume(RParen)
\* without calling the lexer, parse() returns no tree and the line ends
\* with that error; "(1 + 2" ends so, with End for the current token.
C6_MissingRParen ==
  /\ [][(AtFactor("rparen") /\ current_token.type # RPAREN) =>
          /\ pc' = "catch" /\ what' = UnexpectedToken
          /\ ast' = NoNode
          /\ UNCHANGED <<pos, tokens, current_token>>]_vars
  /\ []((pc \in {"catch", "end"} /\ what = UnexpectedToken) =>
          /\ ast = NoNode /\ out = <<>>
          /\ current_token.type # RPAREN
          /\ pc = "end" => err = <<ErrorLine(UnexpectedToken)>>)
  /\ []((pc = "end" /\ input = Line_p1p2) =>
          /\ err = <<ErrorLine(UnexpectedToken)>>
          /\ current_token.type = END)

\* "(1 + 2" has failed with "Unexpected token".
C6_Witness ==
  /\ pc = "end" /\ input = Line_p1p2
  /\ err = <<ErrorLine(UnexpectedToken)>> /\ ast = NoNode

AllSpace(line) == \A i \in 1..Len(line) : IsSpace(line[i])

\* C7: factor() entered on a token that is neither Number nor LParen
\* throws "Expected number or parentheses" and consumes nothing; an empty
\* line and a line of whitespace end with that error and no result.
C7_ExpectedFactor ==
  /\ [][(AtFactor("entry") /\ current_token.type \notin {NUMBER, LPAREN}) =>
          /\ pc' = "catch" /\ what' = ExpectedFactor
          /\ UNCHANGED <<pos, tokens, current_token>>]_vars
  /\ []((pc = "end" /\ AllSpace(input)) =>
          /\ tokens[1].type = END
          /\ err = <<ErrorLine(ExpectedFactor)>>
          /\ out = <<>> /\ ast = NoNode)

\* A line of two spaces has failed with "Expected number or parentheses".
C7_Witness ==
  /\ pc = "end" /\ input = <<" ", " ">>
  /\ err = <<ErrorLine(ExpectedFactor)>> /\ out = <<>>

\* C10: parse() returns with a current token other than End: a line made
\* of a complete expression, then a RParen, Number or LParen, then anything
\* succeeds with the tree and the three outputs of the expression alone;
\* the token after the expression is the last one lexed and the cursor
\* stays right after it.
C10_TrailingTokensIgnored ==
  /\ (pc = "end" /\ expected.known /\ expected.tail # <<>>) =>
       /\ err = <<>>
       /\ ast = expected.tree
       /\ out = << <<"Infix notation: ">> \o print_infix(expected.tree)
                     \o <<"\n">>,
                   <<"Tree structure:", "\n">> \o print_tree(expected.tree, 0),
                   ResultLine(DigitsOf(RefValue(expected.tree))) >>
       /\ LastOf(tokens).type \in {RPAREN, NUMBER, LPAREN}
       /\ current_token.type = LastOf(tokens).type
       /\ \A i \in 1..Len(tokens) : tokens[i].throw = ""
       /\ pos = LastOf(tokens).to
       /\ LastOf(expected.tail) = "-" => pos = Len(input) - 1
  /\ (Parsed /\ current_token.type # END) =>
       /\ current_token.type \in {RPAREN, NUMBER, LPAREN}
       /\ pos = LastOf(tokens).to
       /\ pc = "end" => Len(out) = 3

\* An expression followed by ")-" has succeeded and the '-' was not lexed.
C10_Witness ==
  /\ pc = "end" /\ expected.known /\ expected.tail = <<")", "-">>
  /\ Len(out) = 3 /\ err = <<>>
  /\ pos = Len(input) - 1

\* C8: after a call has returned End, every later call on the same lexer
\* returns End and leaves the cursor where it was; the cursor never passes
\* the end of the input.
C8_EndIsIdempotent ==
  /\ [][(tokens # <<>> /\ LastOf(tokens).throw = ""
          /\ LastOf(tokens).type = END /\ LexerCalled) =>
          /\ LastOf(tokens').throw = ""
          /\ LastOf(tokens').type = END
          /\ current_token' = Token(END, Zero)
          /\ pos' = pos]_vars
  /\ [](pos <= Len(input))

\* The lexer has returned End three times on a line with a token and
\* trailing whitespace.
C8_Witness ==
  /\ pc = "lexer" /\ Len(tokens) >= 4
  /\ input = <<"1", " ">>
  /\ \A i \in 2..4 : tokens[i].type = END /\ tokens[i].throw = ""
  /\ pos = Len(input)

\* The line and the line before it gave the same tokens and the same
\* outputs or error.
SameAsLast ==
  /\ TokenView(tokens) = last.tokens
  /\ out = last.out
  /\ err = last.err

\* C9 as claimed: a whitespace character put in anywhere but inside a
\* numeric literal, or taken out anywhere, changes neither the tokens the
\* lexer returns nor the outputs or the error of the line.
C9_WhitespaceInsensitive ==
  (pc = "end" /\ last.state = "pair") => SameAsLast

\* C9 as amended: the same, unless the character taken out was all that
\* stood between a numeric literal and a following digit or '.'.
C9_WhitespaceBetweenTokens ==
  (pc = "end" /\ last.state = "pair" /\ ~last.joins) => SameAsLast

\* " 1 + 2 " has been processed after "1+2", with the same three outputs.
C9_Witness ==
  /\ pc = "end" /\ last.state = "pair"
  /\ last.input = Example_1p2 /\ input = Example_1p2_spaced
  /\ Len(out) = 3 /\ out = last.out
  /\ TokenView(tokens) = last.tokens

====
